---- MODULE Spec2Model ----
(***************************************************************************)
(* A model of modvendor (src/main.go): the manifest parser, the candidate  *)
(* collector, the scope filter and the vendor planner of main(), and the   *)
(* path encoder pkgModPath.                                                *)
(*                                                                         *)
(* Go strings are modelled as sequences of one-character strings, so that  *)
(* strings.Index, strings.HasPrefix, strings.Split, slicing and            *)
(* filepath.Join act on characters as they do in the program.              *)
(***************************************************************************)
EXTENDS Integers, Sequences, FiniteSets, TLC

\* ------------------------------------------------------------------ bounds
\* longest manifest (number of lines of vendor/modules.txt)
MaxLines == 3
\* longest import path given to the path encoder in EncSpec
MaxPathLen == 3
\* number of consecutive runs of the tool over the same inputs
MaxRuns == 2

\* ----------------------------------------------------------------- strings
\* strings.HasPrefix
HasPrefix(s, p) == Len(p) <= Len(s) /\ SubSeq(s, 1, Len(p)) = p

HasSuffix(s, p) == Len(p) <= Len(s) /\ SubSeq(s, Len(s) - Len(p) + 1, Len(s)) = p

\* strings.Index: the 0-based place of the first occurrence, -1 when absent
RECURSIVE IndexFrom(_, _, _)
IndexFrom(s, sub, i) ==
  IF i + Len(sub) > Len(s) THEN -1
  ELSE IF SubSeq(s, i + 1, i + Len(sub)) = sub THEN i
  ELSE IndexFrom(s, sub, i + 1)

Index(s, sub) == IndexFrom(s, sub, 0)

RECURSIVE TrimLeft(_)
TrimLeft(s) == IF s # <<>> /\ s[1] = " " THEN TrimLeft(Tail(s)) ELSE s

RECURSIVE TrimRight(_)
TrimRight(s) ==
  IF s # <<>> /\ s[Len(s)] = " " THEN TrimRight(SubSeq(s, 1, Len(s) - 1)) ELSE s

\* strings.TrimSpace
TrimSpace(s) == TrimRight(TrimLeft(s))

\* strings.Split(s, sep) for a one-character separator: never the empty list
RECURSIVE Split(_, _)
Split(s, sep) ==
  LET i == Index(s, <<sep>>)
  IN  IF i < 0 THEN <<s>>
      ELSE <<SubSeq(s, 1, i)>> \o Split(SubSeq(s, i + 2, Len(s)), sep)

\* filepath.Clean on paths without "." and ".." elements: repeated separators
\* collapse and a trailing separator is dropped
RECURSIVE Squeeze(_)
Squeeze(s) ==
  IF \A i \in 1..(Len(s) - 1) : s[i] # "/" \/ s[i + 1] # "/" THEN s
  ELSE IF s[1] = "/" /\ s[2] = "/" THEN Squeeze(Tail(s))
  ELSE <<s[1]>> \o Squeeze(Tail(s))

Clean(s) ==
  LET q == Squeeze(s)
  IN  IF Len(q) > 1 /\ q[Len(q)] = "/" THEN SubSeq(q, 1, Len(q) - 1) ELSE q

\* filepath.Join of two elements: empty elements are ignored, the result is cleaned
JoinPath(a, b) ==
  IF a = <<>> THEN (IF b = <<>> THEN <<>> ELSE Clean(b))
  ELSE IF b = <<>> THEN Clean(a)
  ELSE Clean(a \o <<"/">> \o b)

\* unicode.IsUpper / unicode.ToLower on the letters of the model's alphabet
UpperLetters == {"B", "Q", "R"}

IsUpper(c) == c \in UpperLetters

ToLower(c) ==
  CASE c = "B" -> "b"
    [] c = "Q" -> "q"
    [] c = "R" -> "r"
    [] OTHER -> c

\* ------------------------------------------------------------ path encoder
\* $GOPATH of the environment the tool runs in
GoPath == <<"/", "g">>

\* the loop of pkgModPath: normPath grows by one rune of importPath at a time
RECURSIVE normPathLoop(_, _)
normPathLoop(importPath, normPath) ==
  IF importPath = <<>> THEN normPath
  ELSE IF IsUpper(Head(importPath))
       THEN normPathLoop(Tail(importPath), normPath \o <<"!">> \o <<ToLower(Head(importPath))>>)
       ELSE normPathLoop(Tail(importPath), normPath \o <<Head(importPath)>>)

\* fmt.Sprintf("%s@%s", normPath, version)
modDirName(importPath, version) == normPathLoop(importPath, <<>>) \o <<"@">> \o version

pkgModPath(importPath, version) ==
  JoinPath(JoinPath(JoinPath(GoPath, <<"p", "k", "g">>), <<"m", "o", "d">>),
           modDirName(importPath, version))

\* ------------------------------------------------------------ file system
\* $GOPATH/pkg/mod
ModCache == <<"/", "g", "/", "p", "k", "g", "/", "m", "o", "d">>

\* the module cache directories that exist on disk
DirF == ModCache \o <<"/", "f", "@", "1">>
DirR == ModCache \o <<"/", "r", "@", "1">>
DirQ == ModCache \o <<"/", "!", "q", "@", "1">>

\* regular files of the cache, each with the identity of its contents
FileBX  == DirF \o <<"/", "b", "/", "x", ".", "h">>
FileBZY == DirF \o <<"/", "b", "z", "/", "y", ".", "h">>
FileCY  == DirF \o <<"/", "c", "/", "y", ".", "h">>
FileRBX == DirR \o <<"/", "b", "/", "x", ".", "h">>
FileQX  == DirQ \o <<"/", "x", ".", "h">>

\* a directory of the cache whose name ends like a header file
DirCD == DirF \o <<"/", "c", "/", "d", ".", "h">>

FsFiles == {FileBX, FileBZY, FileCY, FileRBX, FileQX}

FsDirs == {DirF, DirF \o <<"/", "b">>, DirF \o <<"/", "b", "z">>, DirF \o <<"/", "c">>,
           DirCD, DirR, DirR \o <<"/", "b">>, DirQ}

FsPaths == FsFiles \cup FsDirs

Content(f) ==
  CASE f = FileBX  -> "bx"
    [] f = FileBZY -> "bzy"
    [] f = FileCY  -> "cy"
    [] f = FileRBX -> "rbx"
    [] f = FileQX  -> "qx"

\* os.Stat(path) succeeds
Exists(path) == path \in FsPaths

\* ------------------------------------------------------------------- glob
\* the recursive header pattern of the README, "**/*.h"
PatHeaders == <<"*", "*", "/", "*", ".", "h">>

HasMeta(p) == \E i \in 1..Len(p) : p[i] = "*"

\* zglob.Glob on the two pattern shapes the model passes: a path without
\* wildcards matches itself when it exists; <root>/**/*<ext> matches every file
\* and directory below root, at any depth, whose name ends in ext
Glob(pattern) ==
  IF ~HasMeta(pattern)
  THEN (IF Exists(pattern) THEN {pattern} ELSE {})
  ELSE LET i == Index(pattern, <<"/", "*", "*", "/", "*">>)
           root == SubSeq(pattern, 1, i)
           ext == SubSeq(pattern, i + 6, Len(pattern))
       IN  {p \in FsPaths : HasPrefix(p, root \o <<"/">>) /\ HasSuffix(p, ext)}

\* the empty map, map[string]bool{}
EmptyMap == [f \in {} |-> FALSE]

buildModVendorList(pats, dir) ==
  [m \in UNION {Glob(JoinPath(dir, pats[i])) : i \in 1..Len(pats)} |-> FALSE]

\* --------------------------------------------------------------- manifest
Arrow == <<"=", ">">>

\* "# f 1"
LineF == <<"#", " ", "f", " ", "1">>
\* "# f 1 => r 1": module f replaced by r
LineFRep == <<"#", " ", "f", " ", "1", " ", "=", ">", " ", "r", " ", "1">>
\* "# Q 1"
LineQ == <<"#", " ", "Q", " ", "1">>
\* "# n 1": a module whose cache directory is absent
LineN == <<"#", " ", "n", " ", "1">>
\* "# f =>": the redirection-marker line
LineMark == <<"#", " ", "f", " ", "=", ">">>
\* package lines "f" and "f/b"
PkgF == <<"f">>
PkgFB == <<"f", "/", "b">>

LinePool == {LineF, LineFRep, LineQ, LineN, LineMark, PkgF, PkgFB}

Manifests == UNION {[1..n -> LinePool] : n \in 0..MaxLines}

\* values of the -copy flag: unset, blank, the header pattern
CopyFlags == {<<>>, <<" ">>, PatHeaders}

\* values of the -include flag: unset, "f/b"
IncludeFlags == {<<>>, PkgFB}

\* ------------------------------------------------------------------ state
VARIABLES
  manifest,             \* lines of ./vendor/modules.txt
  copyPatFlag,          \* *copyPatFlag
  includePackagesFlag,  \* *includePackagesFlag
  goModExists,          \* ./go.mod is there
  modTxtExists,         \* ./vendor/modules.txt is there
  pc,                   \* where main() is: start, parse, filter, copy, done, exit
  status,               \* how the run ended
  copyPat,              \* copyPat
  includedPackages,     \* includedPackages
  lineIdx,              \* the line the scanner delivers next
  mod,                  \* the cursor `mod`: 0 nil, -1 a Mod not in modules, k modules[k]
  orphan,               \* the Mod `mod` points to when it is not in modules
  modules,              \* modules
  modIdx,               \* index of the filter loop over modules
  visited,              \* modules the copy loop has ranged over
  cur,                  \* module of the copy loop, 0 between modules
  pending,              \* keys of cur's VendorList the range has not delivered yet
  vendor,               \* files this tool wrote below ./vendor: path -> contents
  copied,               \* copies of the current run: <<module index, source, destination>>
  run,                  \* number of the current run
  prevTree,             \* vendor as the previous run left it
  prevStatus,           \* status of the previous run
  encIn,                \* arguments of a pkgModPath call
  encOut,               \* its result
  encPc                 \* off, ready, done

inputs == <<manifest, copyPatFlag, includePackagesFlag, goModExists, modTxtExists>>
encVars == <<encIn, encOut, encPc>>
history == <<run, prevTree, prevStatus>>
vars == <<manifest, copyPatFlag, includePackagesFlag, goModExists, modTxtExists,
          pc, status, copyPat, includedPackages, lineIdx, mod, orphan, modules,
          modIdx, visited, cur, pending, vendor, copied, run, prevTree, prevStatus,
          encIn, encOut, encPc>>

\* &Mod{ImportPath: s[1], Version: s[2]}; srcLine remembers the manifest line
NewMod(importPath, version, line) ==
  [ImportPath |-> importPath, SourcePath |-> <<>>, Version |-> version,
   SourceVersion |-> <<>>, Dir |-> <<>>, Pkgs |-> <<>>, VendorList |-> EmptyMap,
   srcLine |-> line]

NoMod == NewMod(<<>>, <<>>, 0)

\* the state of main() before its first statement
Fresh ==
  /\ pc = "start"
  /\ status = "running"
  /\ copyPat = <<>>
  /\ includedPackages = <<>>
  /\ lineIdx = 1
  /\ mod = 0
  /\ orphan = NoMod
  /\ modules = <<>>
  /\ modIdx = 1
  /\ visited = {}
  /\ cur = 0
  /\ pending = {}
  /\ copied = {}

Init ==
  /\ manifest \in Manifests
  /\ copyPatFlag \in CopyFlags
  /\ includePackagesFlag \in IncludeFlags
  /\ goModExists \in BOOLEAN
  /\ modTxtExists \in BOOLEAN
  /\ Fresh
  /\ vendor = EmptyMap
  /\ run = 1
  /\ prevTree = EmptyMap
  /\ prevStatus = "none"
  /\ encIn = [importPath |-> <<>>, version |-> <<>>]
  /\ encOut = <<>>
  /\ encPc = "off"

\* log.Fatal / os.Exit(1) / a runtime panic: the process is gone
Exit(why) ==
  /\ pc' = "exit"
  /\ status' = why

\* ------------------------------------------------------------------ start
\* lines 42-74: flags, the two preflight checks, the pattern list, the includes
Start ==
  /\ pc = "start"
  /\ IF ~goModExists THEN
       /\ Exit("no_gomod")
       /\ UNCHANGED <<copyPat, includedPackages>>
     ELSE IF ~modTxtExists THEN
       /\ Exit("no_modtxt")
       /\ UNCHANGED <<copyPat, includedPackages>>
     ELSE IF Len(Split(TrimSpace(copyPatFlag), " ")) = 0 THEN
       /\ Exit("empty_copy")
       /\ copyPat' = Split(TrimSpace(copyPatFlag), " ")
       /\ UNCHANGED includedPackages
     ELSE
       /\ pc' = "parse"
       /\ copyPat' = Split(TrimSpace(copyPatFlag), " ")
       /\ includedPackages' = Split(TrimSpace(includePackagesFlag), " ")
       /\ UNCHANGED status
  /\ UNCHANGED <<inputs, lineIdx, mod, orphan, modules, modIdx, visited, cur,
                 pending, vendor, copied, history, encVars>>

\* ------------------------------------------------------------------ parse
\* resolveDir with the replace part overlooked
resolveDirOriginal(s) == pkgModPath(s[2], s[3])

\* lines 95-101: the cache directory of a module line with tokens s
resolveDir(s) ==
  IF Len(s) > 3 /\ s[4] = Arrow
  THEN pkgModPath(s[5], s[6])
  ELSE pkgModPath(s[2], s[3])

\* lines 85-101: the Mod of a module line with tokens s
parseMod(s, line) ==
  IF Len(s) > 3 /\ s[4] = Arrow
  THEN [NewMod(s[2], s[3], line) EXCEPT !.SourcePath = s[5], !.SourceVersion = s[6],
                                        !.Dir = resolveDir(s)]
  ELSE [NewMod(s[2], s[3], line) EXCEPT !.Dir = resolveDir(s)]

\* dirMissing without the os.Stat check
dirNeverMissing(dir) == FALSE

\* line 103: os.Stat(mod.Dir) reports the directory absent
dirMissing(dir) == ~Exists(dir)

\* markerCursor when the marker line is skipped before `mod` is assigned
markerCursorKept(old) == old

\* lines 85-93: where `mod` points after a redirection-marker line
markerCursor(old) == -1

\* appendPkg putting the line in front
prependPkg(pkgs, line) == <<line>> \o pkgs

\* line 115: append(mod.Pkgs, line)
appendPkg(pkgs, line) == Append(pkgs, line)

\* an index past the end of a string or slice, or a nil *Mod
parsePanics(line) ==
  \/ line = <<>>
  \/ /\ line[1] = "#"
     /\ LET s == Split(line, " ")
        IN  \/ Len(s) < 3
            \/ s[3] # Arrow /\ Len(s) > 3 /\ s[4] = Arrow /\ Len(s) < 6
  \/ line[1] # "#" /\ mod = 0

\* lines 79-116: one turn of the scanner loop
ParseLine ==
  /\ pc = "parse"
  /\ lineIdx <= Len(manifest)
  /\ LET line == manifest[lineIdx]
         s == Split(line, " ")
     IN  IF parsePanics(line) THEN
           /\ Exit("panic")
           /\ UNCHANGED <<lineIdx, mod, orphan, modules>>
         ELSE IF line[1] = "#" THEN
           IF s[3] = Arrow THEN
             /\ mod' = markerCursor(mod)
             /\ orphan' = IF markerCursor(mod) = -1 THEN NewMod(s[2], s[3], lineIdx) ELSE orphan
             /\ lineIdx' = lineIdx + 1
             /\ UNCHANGED <<pc, status, modules>>
           ELSE IF dirMissing(parseMod(s, lineIdx).Dir) THEN
             /\ Exit("resolution")
             /\ UNCHANGED <<lineIdx, mod, orphan, modules>>
           ELSE
             /\ modules' = Append(modules,
                   [parseMod(s, lineIdx) EXCEPT
                      !.VendorList = buildModVendorList(copyPat, parseMod(s, lineIdx).Dir)])
             /\ mod' = Len(modules) + 1
             /\ lineIdx' = lineIdx + 1
             /\ UNCHANGED <<pc, status, orphan>>
         ELSE
           /\ IF mod = -1
              THEN /\ orphan' = [orphan EXCEPT !.Pkgs = appendPkg(@, line)]
                   /\ UNCHANGED modules
              ELSE /\ modules' = [modules EXCEPT ![mod].Pkgs = appendPkg(@, line)]
                   /\ UNCHANGED orphan
           /\ lineIdx' = lineIdx + 1
           /\ UNCHANGED <<pc, status, mod>>
  /\ UNCHANGED <<inputs, copyPat, includedPackages, modIdx, visited, cur, pending,
                 vendor, copied, history, encVars>>

\* line 79: scanner.Scan() reports the end of the manifest
ScanEnd ==
  /\ pc = "parse"
  /\ lineIdx > Len(manifest)
  /\ pc' = "filter"
  /\ modIdx' = 1
  /\ UNCHANGED <<inputs, status, copyPat, includedPackages, lineIdx, mod, orphan,
                 modules, visited, cur, pending, vendor, copied, history, encVars>>

\* ----------------------------------------------------------------- filter
importPathIntersect(basePath, pkgPath) ==
  IF Index(pkgPath, basePath) # 0 THEN <<>>
  ELSE SubSeq(pkgPath, Len(basePath) + 1, Len(pkgPath))

\* includeMatches without the prefix test
includeAlways(pkg, importPath) == TRUE

\* line 125: an extra package is taken for the module
includeMatches(pkg, importPath) == HasPrefix(pkg, importPath)

\* lines 124-128: mod.Pkgs after the extra packages were appended
withIncludes(m, included) ==
  m.Pkgs \o SelectSeq(included, LAMBDA pkg : includeMatches(pkg, m.ImportPath))

\* lines 131-138: some sub-package of pkgs toggles vendorFile
toggled(m, pkgs, vendorFile) ==
  \E i \in 1..Len(pkgs) :
    Index(vendorFile, JoinPath(m.Dir, importPathIntersect(m.ImportPath, pkgs[i]))) = 0

\* lines 120-144: the body of the filter loop for one module
filterMod(m, included) ==
  IF DOMAIN m.VendorList = {} THEN m
  ELSE LET pkgs == withIncludes(m, included)
       IN  [m EXCEPT !.Pkgs = pkgs,
                     !.VendorList =
                        [f \in {g \in DOMAIN m.VendorList : toggled(m, pkgs, g)} |-> TRUE]]

\* lines 119-145: one turn of the filter loop
FilterMod ==
  /\ pc = "filter"
  /\ modIdx <= Len(modules)
  /\ modules' = [modules EXCEPT ![modIdx] = filterMod(@, includedPackages)]
  /\ modIdx' = modIdx + 1
  /\ UNCHANGED <<inputs, pc, status, copyPat, includedPackages, lineIdx, mod, orphan,
                 visited, cur, pending, vendor, copied, history, encVars>>

\* line 145: the filter loop is over
FilterEnd ==
  /\ pc = "filter"
  /\ modIdx > Len(modules)
  /\ pc' = "copy"
  /\ visited' = {}
  /\ cur' = 0
  /\ pending' = {}
  /\ UNCHANGED <<inputs, status, copyPat, includedPackages, lineIdx, mod, orphan,
                 modules, modIdx, vendor, copied, history, encVars>>

\* ------------------------------------------------------------------- copy
\* "./vendor/"
VendorRoot == <<".", "/", "v", "e", "n", "d", "o", "r", "/">>

\* localFile built on the replacement's import path
localFileOfSource(m, vendorFile) ==
  VendorRoot \o (IF m.SourcePath # <<>> THEN m.SourcePath ELSE m.ImportPath)
             \o SubSeq(vendorFile, Len(m.Dir) + 1, Len(vendorFile))

\* lines 156-157: localFile of a vendor file of module m
localFile(m, vendorFile) ==
  VendorRoot \o m.ImportPath \o SubSeq(vendorFile, Len(m.Dir) + 1, Len(vendorFile))

\* line 148: the modules a range over the slice may deliver next
rangeModules(seen, n) ==
  IF seen = 1..n THEN {}
  ELSE {CHOOSE k \in (1..n) \ seen : \A j \in (1..n) \ seen : k <= j}

\* line 163: os.MkdirAll(filepath.Dir(dst)) fails: a parent of dst is a file
mkdirFails(tree, dst) == \E d \in DOMAIN tree : HasPrefix(dst, d \o <<"/">>)

\* lines 216-239: copyFile fails: src is not a regular file, or dst is a directory
copyFails(tree, src, dst) ==
  \/ src \notin FsFiles
  \/ \E d \in DOMAIN tree : HasPrefix(d, dst \o <<"/">>)

\* the tree after io.Copy wrote the contents of src to dst
written(tree, src, dst) ==
  [d \in DOMAIN tree \cup {dst} |-> IF d = dst THEN Content(src) ELSE tree[d]]

\* line 148: the outer copy loop delivers its next module
CopyNextMod ==
  /\ pc = "copy"
  /\ pending = {}
  /\ \E k \in rangeModules(visited, Len(modules)) :
       /\ visited' = visited \cup {k}
       /\ cur' = k
       /\ pending' = DOMAIN modules[k].VendorList
  /\ UNCHANGED <<inputs, pc, status, copyPat, includedPackages, lineIdx, mod, orphan,
                 modules, modIdx, vendor, copied, history, encVars>>

\* lines 149-168: the range over mod.VendorList delivers some remaining key
CopyFile ==
  /\ pc = "copy"
  /\ pending # {}
  /\ \E vendorFile \in pending :
       LET m == modules[cur]
           dst == localFile(m, vendorFile)
       IN  IF Index(vendorFile, m.Dir) < 0 THEN
             /\ Exit("consistency")
             /\ UNCHANGED <<pending, vendor, copied>>
           ELSE IF mkdirFails(vendor, dst) THEN
             /\ Exit("mkdir_error")
             /\ UNCHANGED <<pending, vendor, copied>>
           ELSE IF copyFails(vendor, vendorFile, dst) THEN
             /\ Exit("copy_error")
             /\ UNCHANGED <<pending, vendor, copied>>
           ELSE
             /\ vendor' = written(vendor, vendorFile, dst)
             /\ copied' = copied \cup {<<cur, vendorFile, dst>>}
             /\ pending' = pending \ {vendorFile}
             /\ UNCHANGED <<pc, status>>
  /\ UNCHANGED <<inputs, copyPat, includedPackages, lineIdx, mod, orphan, modules,
                 modIdx, visited, cur, history, encVars>>

\* line 170: main returns
Finish ==
  /\ pc = "copy"
  /\ pending = {}
  /\ rangeModules(visited, Len(modules)) = {}
  /\ pc' = "done"
  /\ status' = "ok"
  /\ UNCHANGED <<inputs, copyPat, includedPackages, lineIdx, mod, orphan, modules,
                 modIdx, visited, cur, pending, vendor, copied, history, encVars>>

\* the tool is started again over the same manifest, cache and flags
Rerun ==
  /\ pc \in {"done", "exit"}
  /\ run < MaxRuns
  /\ run' = run + 1
  /\ prevTree' = vendor
  /\ prevStatus' = status
  /\ pc' = "start"
  /\ status' = "running"
  /\ copyPat' = <<>>
  /\ includedPackages' = <<>>
  /\ lineIdx' = 1
  /\ mod' = 0
  /\ orphan' = NoMod
  /\ modules' = <<>>
  /\ modIdx' = 1
  /\ visited' = {}
  /\ cur' = 0
  /\ pending' = {}
  /\ copied' = {}
  /\ UNCHANGED <<inputs, vendor, encVars>>

Next ==
  \/ Start
  \/ ParseLine
  \/ ScanEnd
  \/ FilterMod
  \/ FilterEnd
  \/ CopyNextMod
  \/ CopyFile
  \/ Finish
  \/ Rerun

Spec == Init /\ [][Next]_vars

\* ------------------------------------------------- the path encoder alone
EncAlphabet == {"a", "B", "Q", "/"}

\* import paths as a manifest carries them: no empty path element
WellFormed(p) ==
  /\ p # <<>>
  /\ p[1] # "/"
  /\ p[Len(p)] # "/"
  /\ \A i \in 1..(Len(p) - 1) : ~(p[i] = "/" /\ p[i + 1] = "/")

ImportPaths ==
  {p \in UNION {[1..n -> EncAlphabet] : n \in 1..MaxPathLen} : WellFormed(p)}

\* versions, one of them with an uppercase letter as in v1.0.0-RC1
Versions == {<<"1">>, <<"1", "R">>}

EncInit ==
  /\ encIn \in [importPath : ImportPaths, version : Versions]
  /\ encOut = <<>>
  /\ encPc = "ready"
  /\ manifest = <<>>
  /\ copyPatFlag = <<>>
  /\ includePackagesFlag = <<>>
  /\ goModExists = TRUE
  /\ modTxtExists = TRUE
  /\ pc = "off"
  /\ status = "running"
  /\ copyPat = <<>>
  /\ includedPackages = <<>>
  /\ lineIdx = 1
  /\ mod = 0
  /\ orphan = NoMod
  /\ modules = <<>>
  /\ modIdx = 1
  /\ visited = {}
  /\ cur = 0
  /\ pending = {}
  /\ copied = {}
  /\ vendor = EmptyMap
  /\ run = 1
  /\ prevTree = EmptyMap
  /\ prevStatus = "none"

\* a call of pkgModPath
Encode ==
  /\ encPc = "ready"
  /\ encOut' = pkgModPath(encIn.importPath, encIn.version)
  /\ encPc' = "done"
  /\ UNCHANGED <<inputs, pc, status, copyPat, includedPackages, lineIdx, mod, orphan,
                 modules, modIdx, visited, cur, pending, vendor, copied, history, encIn>>

EncNext == Encode

EncSpec == EncInit /\ [][EncNext]_vars

\* ======================================================================
\* Properties
\* ======================================================================
IsModuleLine(l) == l # <<>> /\ l[1] = "#"

\* the tokens s of a module line: the third is the marker
MarkerTokens(s) == Len(s) >= 3 /\ s[3] = Arrow

\* the tokens s of a module line: a path, a version, the marker, a path, a version
ReplaceTokens(s) == Len(s) >= 6 /\ s[3] # Arrow /\ s[4] = Arrow

IsMarkerLine(l) == IsModuleLine(l) /\ MarkerTokens(Split(l, " "))

IsReplaceLine(l) == IsModuleLine(l) /\ ReplaceTokens(Split(l, " "))

\* the manifest lines the parser has consumed
Consumed == lineIdx - 1

\* the parser is at work or has just handed over to the filter
Parsing == pc = "parse" \/ (pc = "filter" /\ modIdx = 1)

ModuleLines(n) == {i \in 1..n : IsModuleLine(manifest[i])}

RecordLines(n) == {i \in ModuleLines(n) : ~IsMarkerLine(manifest[i])}

\* the k-th smallest member of a set of line numbers
Nth(S, k) == CHOOSE i \in S : Cardinality({j \in S : j <= i}) = k

\* the package lines between module line i and the next module line, up to line n
BlockEnd(i, n) ==
  CHOOSE e \in i..n :
    /\ \A j \in (i + 1)..e : ~IsModuleLine(manifest[j])
    /\ (e < n => IsModuleLine(manifest[e + 1]))

Block(i, n) == SubSeq(manifest, i + 1, BlockEnd(i, n))

\* record k is the record of module line i, with exactly the block of i as packages
RecordOfLine(k, i, n) ==
  /\ modules[k].ImportPath = Split(manifest[i], " ")[2]
  /\ modules[k].Version = Split(manifest[i], " ")[3]
  /\ modules[k].Pkgs = Block(i, n)

\* C2 as stated: in every parse, there is one record per module line, in manifest
\* order, and the packages of each record are, in order and with duplicates, the
\* package lines between its module line and the next module line.
C2_OneRecordPerModuleLine ==
  Parsing =>
    LET lines == ModuleLines(Consumed)
    IN  /\ Len(modules) = Cardinality(lines)
        /\ \A k \in 1..Len(modules) : RecordOfLine(k, Nth(lines, k), Consumed)

\* C2 amended: in every parse, there is one record per module line that is not a
\* redirection-marker line, in manifest order, and the packages of each record are,
\* in order and with duplicates, the package lines between its module line and the
\* next module line (marker lines included among the module lines that end a block).
C2_OneRecordPerPlainModuleLine ==
  Parsing =>
    LET lines == RecordLines(Consumed)
    IN  /\ Len(modules) = Cardinality(lines)
        /\ \A k \in 1..Len(modules) : RecordOfLine(k, Nth(lines, k), Consumed)

\* a finished parse with two records, a package line between their module lines
C2_Witness ==
  /\ pc = "filter" /\ modIdx = 1
  /\ Len(modules) = 2
  /\ modules[1].Pkgs = <<PkgFB>>
  /\ modules[2].Pkgs = <<>>

\* the sum of Len(modules[k].Pkgs) over the first n records
RECURSIVE AttributedUpTo(_)
AttributedUpTo(n) == IF n = 0 THEN 0 ELSE Len(modules[n].Pkgs) + AttributedUpTo(n - 1)

\* the module line that a line at place j refers to: the nearest module line before it
NearestModuleLine(j) == CHOOSE i \in ModuleLines(j) : \A h \in ModuleLines(j) : h <= i

\* consumed package lines whose nearest preceding module line is a marker line
MarkerBlockLines(n) ==
  {j \in 1..n : /\ ~IsModuleLine(manifest[j])
                /\ ModuleLines(j) # {}
                /\ IsMarkerLine(manifest[NearestModuleLine(j)])}

PackageLines(n) == {j \in 1..n : ~IsModuleLine(manifest[j])}

\* the tokens of the -include flag
IncludeTokens == {includedPackages[i] : i \in 1..Len(includedPackages)}

\* C9: a redirection-marker module line produces no record, and the package lines
\* that follow it up to the next module line are attributed to no record: while
\* parsing, the records hold exactly the package lines outside marker blocks, and
\* at every later moment the packages of a record are its own block followed only
\* by include prefixes, so a marker block never reaches a selection.
C9_MarkerLinesProduceNothing ==
  /\ \A k \in 1..Len(modules) : ~IsMarkerLine(manifest[modules[k].srcLine])
  /\ Parsing =>
       /\ Len(modules) = Cardinality(ModuleLines(Consumed))
                           - Cardinality({i \in ModuleLines(Consumed) : IsMarkerLine(manifest[i])})
       /\ AttributedUpTo(Len(modules)) =
            Cardinality(PackageLines(Consumed)) - Cardinality(MarkerBlockLines(Consumed))
  /\ pc \in {"filter", "copy", "done"} =>
       \A k \in 1..Len(modules) :
         LET own == Block(modules[k].srcLine, Len(manifest))
             pkgs == modules[k].Pkgs
         IN  /\ Len(pkgs) >= Len(own)
             /\ SubSeq(pkgs, 1, Len(own)) = own
             /\ \A i \in (Len(own) + 1)..Len(pkgs) : pkgs[i] \in IncludeTokens

\* a record, then a marker line, then a package line of the marker: all consumed
C9_Witness ==
  /\ pc = "filter"
  /\ Len(manifest) >= 3
  /\ Len(modules) = 1
  /\ IsMarkerLine(manifest[2])
  /\ manifest[3] = PkgFB
  /\ modules[1].Pkgs = <<>>
  /\ orphan.Pkgs = <<PkgFB>>

\* the escape of an import path, letter by letter
RECURSIVE Concat(_)
Concat(ss) == IF ss = <<>> THEN <<>> ELSE Head(ss) \o Concat(Tail(ss))

Escaped(p) ==
  Concat([i \in 1..Len(p) |-> IF IsUpper(p[i]) THEN <<"!", ToLower(p[i])>> ELSE <<p[i]>>])

\* the cache directory of (import path, version)
CacheDirOf(p, v) == ModCache \o <<"/">> \o Escaped(p) \o <<"@">> \o v

\* the cache directory the module line l asks for
WantedDir(l) ==
  LET s == Split(l, " ")
  IN  IF ReplaceTokens(s) THEN CacheDirOf(s[5], s[6]) ELSE CacheDirOf(s[2], s[3])

\* C5: the record of a replace-form module line has the cache directory of the
\* replacement import path and version, and keeps the original import path; the
\* record of a module line without a replace part has the cache directory of its
\* own import path and version.
C5_ReplaceResolvesFromReplacement ==
  \A k \in 1..Len(modules) :
    LET l == manifest[modules[k].srcLine]
        s == Split(l, " ")
    IN  /\ modules[k].ImportPath = s[2]
        /\ IF ReplaceTokens(s)
           THEN /\ modules[k].SourcePath = s[5]
                /\ modules[k].SourceVersion = s[6]
                /\ modules[k].Dir = CacheDirOf(s[5], s[6])
           ELSE /\ modules[k].SourcePath = <<>>
                /\ modules[k].Dir = CacheDirOf(s[2], s[3])

\* the record of "# f 1 => r 1" sits in the cache directory of r@1
C5_Witness ==
  \E k \in 1..Len(modules) :
    /\ manifest[modules[k].srcLine] = LineFRep
    /\ modules[k].Dir = DirR
    /\ modules[k].ImportPath = <<"f">>

\* module lines, marker lines apart, whose cache directory is absent
UnresolvedLines(n) == {i \in RecordLines(n) : ~Exists(WantedDir(manifest[i]))}

\* C7: a run that ends with a resolution error stopped at the first module line in
\* manifest order whose cache directory is absent, holds only the records of the
\* lines before it, and has copied nothing into the vendor tree; and whenever a
\* file has been copied, every line of the manifest has been consumed and every
\* module line of it was resolved to an existing directory.
C7_ResolutionFailsFast ==
  /\ status = "resolution" =>
       /\ lineIdx \in UnresolvedLines(Len(manifest))
       /\ UnresolvedLines(lineIdx - 1) = {}
       /\ Len(modules) = Cardinality(RecordLines(lineIdx - 1))
       /\ copied = {}
       /\ vendor = EmptyMap
  /\ (copied # {} \/ vendor # EmptyMap) =>
       /\ UnresolvedLines(Len(manifest)) = {}
       /\ (copied # {} => lineIdx = Len(manifest) + 1)

\* a resolution error after one record was parsed and before the last line
C7_Witness ==
  /\ status = "resolution"
  /\ Len(modules) = 1
  /\ lineIdx < Len(manifest)
  /\ IsModuleLine(manifest[Len(manifest)])

\* module k has been through the filter loop, which is still the place of main();
\* the copy loop that follows never writes to a Mod
Filtered(k) == pc = "filter" /\ k < modIdx

\* the candidate set of record k, as the collector built it
Candidates(k) == DOMAIN buildModVendorList(copyPat, modules[k].Dir)

Selection(k) == DOMAIN modules[k].VendorList

\* file f is directory d or lies below it
UnderDir(f, d) == f = d \/ HasPrefix(f, d \o <<"/">>)

\* <cache dir>/<suffix of p after the module import path>
ScopeDir(m, p) ==
  JoinPath(m.Dir, IF HasPrefix(p, m.ImportPath)
                  THEN SubSeq(p, Len(m.ImportPath) + 1, Len(p)) ELSE <<>>)

\* C1: after the filter, the selection of a module with candidates is exactly the
\* set of candidates that lie under the directory of some package of its package
\* set; no candidate of an unreferenced sibling directory is kept.
C1_SelectionIsReferencedDirs ==
  \A k \in 1..Len(modules) :
    (Filtered(k) /\ Candidates(k) # {}) =>
      Selection(k) =
        {c \in Candidates(k) :
           \E i \in 1..Len(modules[k].Pkgs) : UnderDir(c, ScopeDir(modules[k], modules[k].Pkgs[i]))}

\* the include prefixes that start with the import path of m, in flag order
MatchingIncludes(m) == SelectSeq(includedPackages, LAMBDA t : HasPrefix(t, m.ImportPath))

\* C3: after the filter of a module with candidates, every include prefix that
\* starts with its import path is in its package set and every candidate under the
\* directory of such a prefix is selected; and the selection is the one that the
\* module's own package lines and those prefixes alone give, so an include prefix
\* that does not start with the import path changes nothing.
C3_IncludePrefixes ==
  \A k \in 1..Len(modules) :
    Filtered(k) =>
      LET m == modules[k]
          cands == Candidates(k)
          own == Block(m.srcLine, Len(manifest))
          inc == MatchingIncludes(m)
      IN  cands # {} =>
            /\ m.Pkgs = own \o inc
            /\ \A i \in 1..Len(inc) : \A c \in cands :
                 UnderDir(c, ScopeDir(m, inc[i])) => c \in Selection(k)
            /\ Selection(k) = {c \in cands : toggled(m, own \o inc, c)}

\* module f without a package line "f/b": the include prefix "f/b" selects b/x.h
C3_Witness ==
  \E k \in 1..Len(modules) :
    /\ Filtered(k)
    /\ modules[k].Dir = DirF
    /\ Block(modules[k].srcLine, Len(manifest)) = <<>>
    /\ PkgFB \in IncludeTokens
    /\ FileBX \in Selection(k)
    /\ FileCY \notin Selection(k)

\* C4: every copy of a run went from a selected candidate that has the cache
\* directory of its module as a prefix to ./vendor/<original import path><rest of
\* the path after the cache directory>, also for a replace-form module; a finished
\* run has copied every selected candidate; and a consistency error is raised only
\* for a candidate that lacks the prefix.
C4_DestinationOfCopies ==
  /\ \A e \in copied :
       LET m == modules[e[1]]
           orig == Split(manifest[m.srcLine], " ")[2]
       IN  /\ e[2] \in Selection(e[1])
           /\ HasPrefix(e[2], m.Dir)
           /\ e[3] = VendorRoot \o orig \o SubSeq(e[2], Len(m.Dir) + 1, Len(e[2]))
           /\ e[3] \in DOMAIN vendor
           /\ (e[2] = FileRBX => e[3] = VendorRoot \o <<"f", "/", "b", "/", "x", ".", "h">>)
  /\ pc = "done" =>
       \A k \in 1..Len(modules) : \A f \in Selection(k) :
         \E e \in copied : e[1] = k /\ e[2] = f
  /\ status = "consistency" =>
       \E f \in pending : ~HasPrefix(f, modules[cur].Dir)

\* a file of the replacement r@1 was copied below ./vendor/f
C4_Witness ==
  \E e \in copied :
    /\ e[2] = FileRBX
    /\ modules[e[1]].SourcePath = <<"r">>
    /\ e[3] \in DOMAIN vendor

\* C6: with an empty or blank -copy argument the run ends before it has consumed a
\* manifest line, built a record, matched a pattern or copied a file.
C6_EmptyCopyIsFatal ==
  TrimSpace(copyPatFlag) = <<>> =>
    /\ lineIdx = 1
    /\ modules = <<>>
    /\ copied = {}
    /\ pc # "done"

\* C8: a later run over the same manifest, cache and flags leaves the vendor tree
\* as the run before it left it: the same destinations with the same contents.
C8_SecondRunSameTree ==
  (run > 1 /\ pc \in {"done", "exit"}) => vendor = prevTree

\* the directory name within the module cache that a pkgModPath result ends in
EncName == SubSeq(encOut, Len(ModCache) + 2, Len(encOut))

\* C10: the directory name is the escape of the import path, "@" and the version,
\* and it holds no uppercase letter.
C10_NoUppercaseInOutput ==
  encPc = "done" =>
    /\ encOut = CacheDirOf(encIn.importPath, encIn.version)
    /\ \A i \in 1..Len(EncName) : ~IsUpper(EncName[i])

\* a run that ended well is repeated by the next run: the same tree, the same end
SuccessfulRunRepeats ==
  (run > 1 /\ pc \in {"done", "exit"} /\ prevStatus = "ok") =>
    (vendor = prevTree /\ status = "ok")

====
